---- MODULE Spec2Model ----
(***************************************************************************)
(* Model of the bitflags-iam IamManager (src/src/main.rs) and of its       *)
(* codec helpers (src/src/utils.rs).                                       *)
(*                                                                         *)
(* A u64 is modelled as the set of its set bit positions, a subset of      *)
(* 0..BITS-1: value 1 is {0}, value 3 is {0,1}, 1 << k is {k}.  Bitwise    *)
(* and/or/not are intersection/union/complement, and checked_mul(2)        *)
(* overflows exactly when bit BITS-1 is set.  Nothing of the width is lost.*)
(*                                                                         *)
(* Of a User only the id and the permissions field are kept: name, email   *)
(* and password_hash are stored and returned but never read by the code.   *)
(***************************************************************************)
EXTENDS Integers, Sequences, FiniteSets, TLC

\* ------------------------------------------------------------- bounds
NumTasks == 2       \* concurrent request-handling tasks
MaxUsers == 2       \* user ids that create_user can hand out
MaxLen   == 2       \* longest permission-name list a request carries
MaxCalls == 3       \* operations invoked in a run, over all tasks

\* ------------------------------------------------------------- constants
BITS == 64          \* width of u64 (User.permissions, Permission.value)

Tasks   == 1..NumTasks
UserIds == 1..MaxUsers
BitPos  == 0..(BITS - 1)

\* The four defaults of IamManager::new, and the names requests mention: one
\* of the defaults and one name that is not registered at construction.
DefaultNames == {"READ", "WRITE", "EXECUTE", "DELETE"}
Names == {"WRITE", "ADMIN"}

\* Rust orders String byte by byte; this is that order on Names.
NameOrder == <<"ADMIN", "DELETE", "EXECUTE", "READ", "WRITE", "write">>
Rank(n) == CHOOSE i \in 1..Len(NameOrder) : NameOrder[i] = n
StrLess(a, b) == Rank(a) < Rank(b)

\* Permission-name lists (Vec<String>): order and duplicates are kept.
NameLists == UNION {[1..n -> Names] : n \in 0..MaxLen}

\* ------------------------------------------------------------- u64
Zero == {}
One  == {0}
BitAnd(a, b) == a \cap b
BitOr(a, b)  == a \cup b
BitNot(a)    == BitPos \ a
SetMax(S)    == CHOOSE x \in S : \A y \in S : y <= x
\* a < b as unsigned integers: the highest bit in which they differ is b's.
U64Less(a, b) == a # b /\ SetMax((a \ b) \cup (b \ a)) \in b
\* Option<T>
Some(v) == [some |-> TRUE, val |-> v]
None    == [some |-> FALSE]
\* u64::checked_mul(2)
\* a plausible slip: wrapping_mul(2), the top bit falls off
WrappingMul2(v) == Some({k + 1 : k \in {j \in v : j + 1 < BITS}})
CheckedMul2(v) == IF (BITS - 1) \in v THEN None ELSE Some({k + 1 : k \in v})

\* Result values
Ok(v)  == [ok |-> TRUE, val |-> v]
Err(e) == [ok |-> FALSE, err |-> e]
ErrNotFound(name) == Err(<<"PermissionNotFound", name>>)
ErrExists    == Err(<<"Permission already exists">>)
ErrNoPerm    == Err(<<"Permission not found">>)
ErrNoUser    == Err(<<"User not found">>)
ErrSlots     == Err(<<"No more permission slots available">>)
ErrHash      == Err(<<"Failed to hash password">>)
ErrReadLock  == Err(<<"Failed to acquire read lock">>)
ErrWriteLock == Err(<<"Failed to acquire write lock">>)

\* ------------------------------------------------------------- sorting
\* An operator's argument is evaluated each time the operator uses it; an
\* argument that is costly to evaluate is taken from a singleton set, which
\* evaluates it once:  CHOOSE r \in {F(v) : v \in {arg}} : TRUE  is  F(arg).

\* Element i of s goes to the place after every smaller element and every
\* equal one before it.
PlacedU64(s) ==
    LET place == [i \in DOMAIN s |->
                    1 + Cardinality({j \in DOMAIN s :
                            U64Less(s[j], s[i]) \/ (s[j] = s[i] /\ j < i)})]
    IN  [k \in DOMAIN s |-> s[CHOOSE i \in DOMAIN s : place[i] = k]]

\* Vec<u64>::sort(): ascending, duplicates kept (stable)
SortU64(s) == CHOOSE r \in {PlacedU64(v) : v \in {s}} : TRUE

RECURSIVE InsertName(_, _)
InsertName(s, n) ==
    IF s = <<>> THEN <<n>>
    ELSE IF StrLess(n, Head(s)) THEN <<n>> \o s
    ELSE <<Head(s)>> \o InsertName(Tail(s), n)

RECURSIVE SortNames(_)
\* Vec<String>::sort(): ascending, duplicates kept
SortNames(s) == IF s = <<>> THEN <<>> ELSE InsertName(SortNames(Tail(s)), Head(s))

RECURSIVE SetToSeq(_)
\* HashMap iteration: the keys in some order (every use sorts afterwards)
SetToSeq(S) ==
    IF S = {} THEN <<>>
    ELSE LET x == CHOOSE y \in S : TRUE IN <<x>> \o SetToSeq(S \ {x})

\* ------------------------------------------------------------- codec
\* The registry is a function from the registered names to Permission
\* records [name, value].

RECURSIVE PlusBit(_, _)
\* bits + 2^i on u64: the carry runs up from position i
PlusBit(bits, i) ==
    IF i \notin BitPos THEN bits
    ELSE IF i \in bits THEN PlusBit(bits \ {i}, i + 1)
    ELSE bits \cup {i}

RECURSIVE NamesToBitsFromPlus(_, _, _)
\* a plausible slip: bits += permission.value in place of bits |= permission.value
NamesToBitsFromPlus(perms, names, bits) ==
    IF names = <<>> THEN Ok(bits)
    ELSE IF Head(names) \in DOMAIN perms
         THEN NamesToBitsFromPlus(perms, Tail(names),
                                  PlusBit(bits, SetMax(perms[Head(names)].value)))
         ELSE ErrNotFound(Head(names))

RECURSIVE NamesToBitsFromAssign(_, _, _)
\* a plausible slip: bits = permission.value in place of bits |= permission.value
NamesToBitsFromAssign(perms, names, bits) ==
    IF names = <<>> THEN Ok(bits)
    ELSE IF Head(names) \in DOMAIN perms
         THEN NamesToBitsFromAssign(perms, Tail(names), perms[Head(names)].value)
         ELSE ErrNotFound(Head(names))

RECURSIVE NamesToBitsFromSkip(_, _, _)
\* a plausible slip: an unknown name is skipped instead of failing the call
NamesToBitsFromSkip(perms, names, bits) ==
    IF names = <<>> THEN Ok(bits)
    ELSE IF Head(names) \in DOMAIN perms
         THEN NamesToBitsFromSkip(perms, Tail(names), BitOr(bits, perms[Head(names)].value))
         ELSE NamesToBitsFromSkip(perms, Tail(names), bits)

RECURSIVE NamesToBitsFrom(_, _, _)
NamesToBitsFrom(perms, names, bits) ==
    IF names = <<>> THEN Ok(bits)
    ELSE IF Head(names) \in DOMAIN perms
         THEN NamesToBitsFrom(perms, Tail(names), BitOr(bits, perms[Head(names)].value))
         ELSE ErrNotFound(Head(names))

\* permission_names_to_bits: OR of the values, first unknown name fails
permission_names_to_bits(perms, names) == NamesToBitsFrom(perms, names, Zero)

\* a plausible slip: the operands of the test swapped, (bits & value) == bits
MatchingNamesSwapped(perms, bits) ==
    LET keys == SetToSeq(DOMAIN perms)
    IN  SelectSeq([i \in 1..Len(keys) |-> perms[keys[i]]],
                  LAMBDA p : BitAnd(bits, p.value) = bits)

\* the names pushed by the loop of bits_to_permission_names, before the sort
MatchingNames(perms, bits) ==
    LET keys == SetToSeq(DOMAIN perms)
    IN  SelectSeq([i \in 1..Len(keys) |-> perms[keys[i]]],
                  LAMBDA p : BitAnd(bits, p.value) = p.value)

\* bits_to_permission_names: names of the registered permissions whose value
\* is contained in bits, sorted
bits_to_permission_names(perms, bits) ==
    LET hit == MatchingNames(perms, bits)
    IN  SortNames([i \in 1..Len(hit) |-> hit[i].name])

\* permissions.values().map(|p| p.value).collect::<Vec<_>>()
\* permissions.values().map(|p| p.value).collect(), in iteration order
UsedValues(perms) ==
    CHOOSE r \in {[i \in 1..Len(keys) |-> perms[keys[i]].value] :
                    keys \in {SetToSeq(DOMAIN perms)}} : TRUE

RECURSIVE ScanFrom(_, _, _)
\* the for loop from its i-th iteration on, next_value as accumulator
ScanFrom(sorted, i, next_value) ==
    IF i > Len(sorted) THEN Ok(next_value)
    ELSE IF next_value = sorted[i]
         THEN LET m == CheckedMul2(next_value)
              IN  IF m.some THEN ScanFrom(sorted, i + 1, m.val) ELSE ErrSlots
         ELSE Ok(next_value)

\* the for loop over the sorted used values
ScanFree(sorted, next_value) ==
    CHOOSE r \in {ScanFrom(v, 1, next_value) : v \in {sorted}} : TRUE

RECURSIVE FindFrom(_, _, _)
\* utils.rs, the for loop of find_next_available_bit: i is the place of
\* used_value in sorted_values, break and the end of the vector give Ok
FindFrom(sorted_values, i, next_value) ==
    IF i > Len(sorted_values) \/ next_value # sorted_values[i] THEN Ok(next_value)
    ELSE LET doubled == CheckedMul2(next_value)
         IN  IF doubled.some THEN FindFrom(sorted_values, i + 1, doubled.val)
             ELSE ErrSlots

\* find_next_available_bit (utils.rs)
find_next_available_bit(used_values) ==
    CHOOSE r \in {FindFrom(v, 1, One) : v \in {SortU64(used_values)}} : TRUE

RECURSIVE UtilsNamesFrom(_, _, _, _)
\* utils.rs, the for loop of permission_names_to_bits from its i-th name on
UtilsNamesFrom(perms, names, i, bits) ==
    IF i > Len(names) THEN Ok(bits)
    ELSE IF names[i] \in DOMAIN perms
         THEN UtilsNamesFrom(perms, names, i + 1, BitOr(bits, perms[names[i]].value))
         ELSE ErrNotFound(names[i])

\* utils.rs, permission_names_to_bits(&permissions, &names)
utils_permission_names_to_bits(perms, names) == UtilsNamesFrom(perms, names, 1, Zero)

RECURSIVE UtilsPushed(_, _, _)
\* utils.rs, the names pushed by the first i iterations over permissions.values()
UtilsPushed(values, i, bits) ==
    IF i = 0 THEN <<>>
    ELSE LET pushed == UtilsPushed(values, i - 1, bits)
         IN  IF BitAnd(bits, values[i].value) = values[i].value
             THEN Append(pushed, values[i].name)
             ELSE pushed

\* utils.rs, bits_to_permission_names(&permissions, bits)
utils_bits_to_permission_names(perms, bits) ==
    LET keys == SetToSeq(DOMAIN perms)
        values == [i \in 1..Len(keys) |-> perms[keys[i]]]
    IN  Ok(SortNames(UtilsPushed(values, Len(values), bits)))

\* a plausible slip: the next bit taken to be the number of permissions
NextValueByCount(perms) == Ok({Len(UsedValues(perms))})

\* a plausible slip: always one past the highest value in use (max * 2)
NextValueAfterMax(perms) ==
    LET sorted == SortU64(UsedValues(perms))
    IN  IF sorted = <<>> THEN Ok(One)
        ELSE LET m == CheckedMul2(sorted[Len(sorted)])
             IN  IF m.some THEN Ok(m.val) ELSE ErrSlots

\* the same allocation as written inline in IamManager::add_permission
NextValue(perms) == ScanFree(SortU64(UsedValues(perms)), One)

\* list_permissions: all permissions, ascending by value
PlacedPerms(s) ==
    LET place == [i \in DOMAIN s |->
                    1 + Cardinality({j \in DOMAIN s :
                            \/ U64Less(s[j].value, s[i].value)
                            \/ (s[j].value = s[i].value /\ j < i)})]
    IN  [k \in DOMAIN s |-> s[CHOOSE i \in DOMAIN s : place[i] = k]]

\* a plausible slip: the sort is left out, the HashMap's order is returned
PermsUnsorted(s) == s

\* perms.sort_by(|a, b| a.value.cmp(&b.value)): ascending by value (stable)
SortPerms(s) == CHOOSE r \in {PlacedPerms(v) : v \in {s}} : TRUE

ListPermissions(perms) ==
    CHOOSE r \in {SortPerms([i \in 1..Len(keys) |-> perms[keys[i]]]) :
                    keys \in {SetToSeq(DOMAIN perms)}} : TRUE

\* IamManager::new: the registry at construction
\* a plausible slip: the shifts start at 1 instead of 0
DefaultPermissionsShifted ==
    [n \in DefaultNames |->
        [name |-> n,
         value |-> CASE n = "READ"    -> {1}
                     [] n = "WRITE"   -> {2}
                     [] n = "EXECUTE" -> {3}
                     [] n = "DELETE"  -> {4}]]

DefaultPermissions ==
    [n \in DefaultNames |->
        [name |-> n,
         value |-> CASE n = "READ"    -> {0}
                     [] n = "WRITE"   -> {1}
                     [] n = "EXECUTE" -> {2}
                     [] n = "DELETE"  -> {3}]]

\* ------------------------------------------------------------- state
VARIABLES
    permissions,   \* IamManager.permissions: registered name -> Permission
    users,         \* IamManager.users: user id -> User.permissions (the mask)
    permLock,      \* RwLock around permissions: [readers, writer]
    userLock,      \* RwLock around users: [readers, writer]
    pc,            \* per task: where it is in the operation it runs
    call,          \* per task: the operation and its arguments
    local,         \* per task: permissions_bits / required_bits, has_all, missing_bits
    ret,           \* per task: what the last finished operation returned
    calls,         \* operations invoked so far
    poisoned       \* per RwLock: a writer panicked while holding it

vars == <<permissions, users, permLock, userLock, pc, call, local, ret, calls,
          poisoned>>

NoTask == 0
Unlocked == [readers |-> {}, writer |-> NoTask]
NoLocal  == [bits |-> Zero, has_all |-> FALSE, missing_bits |-> Zero]
NoCall   == [names |-> <<>>, op |-> "none", uid |-> 0, pname |-> "", pw_ok |-> TRUE]
NoRet    == Err(<<>>)

\* RwLock::read / RwLock::write succeed when the lock state allows it.  (std
\* leaves open whether a waiting writer holds back new readers; a reader is
\* admitted here whenever no writer holds the lock.)
CanRead(l)  == l.writer = NoTask
CanWrite(l) == l.writer = NoTask /\ l.readers = {}
ReadLocked(l, t)  == [l EXCEPT !.readers = @ \cup {t}]
\* a plausible slip: the read guard outlives the call that took it
ReadGuardKept(l, t) == l
ReadUnlocked(l, t) == [l EXCEPT !.readers = @ \ {t}]
WriteLocked(l, t) == [l EXCEPT !.writer = t]
\* a plausible slip: the write guard outlives the call that took it
WriteGuardKept(l, t) == l
WriteUnlocked(l, t) == [l EXCEPT !.writer = NoTask]

User(id, mask) == [id |-> id, permissions |-> mask]

Init ==
    /\ permissions = DefaultPermissions
    /\ users = << >>
    /\ permLock = Unlocked
    /\ userLock = Unlocked
    /\ pc = [t \in Tasks |-> "idle"]
    /\ call = [t \in Tasks |-> NoCall]
    /\ local = [t \in Tasks |-> NoLocal]
    /\ ret = [t \in Tasks |-> NoRet]
    /\ calls = 0
    /\ poisoned = [perm |-> FALSE, user |-> FALSE]

\* ------------------------------------------------------------- helpers
Finish(t, r) ==
    /\ pc' = [pc EXCEPT ![t] = "done"]
    /\ ret' = [ret EXCEPT ![t] = r]

Goto(t, where) == pc' = [pc EXCEPT ![t] = where]

\* tasks inside create_user that have not stored their user yet
Creating == {t \in Tasks : call[t].op = "create_user" /\ pc[t] # "done"}

\* Uuid::new_v4(): an identifier no stored user has
FreshIds == UserIds \ DOMAIN users

\* where an operation starts: the first lock it asks for
FirstPc(op) ==
    CASE op = "create_user"                    -> "ntb_lock"
      [] op = "update_user_permissions"        -> "ntb_lock"
      [] op = "get_user"                       -> "gu_lock"
      [] op = "get_user_with_permission_names" -> "gw_lock"
      [] op = "check_permissions"              -> "ck_lock"
      [] op = "add_permission"                 -> "ap_lock"
      [] op = "remove_permission"              -> "rp_lock"
      [] op = "list_permissions"               -> "lp_lock"

\* ------------------------------------------------------------- invocation
\* A task that is idle, or has returned, invokes the next operation.
Invoke(t, c) ==
    /\ pc[t] \in {"idle", "done"}
    /\ calls < MaxCalls
    /\ calls' = calls + 1
    /\ call' = [call EXCEPT ![t] = c]
    /\ local' = [local EXCEPT ![t] = NoLocal]
    /\ ret' = [ret EXCEPT ![t] = NoRet]
    /\ Goto(t, FirstPc(c.op))
    /\ UNCHANGED <<permissions, users, permLock, userLock, poisoned>>

CallCreateUser(t) ==
    /\ Cardinality(DOMAIN users) + Cardinality(Creating) < MaxUsers
    /\ \E ns \in NameLists, ok \in BOOLEAN :
          Invoke(t, [names |-> ns, op |-> "create_user", uid |-> 0, pname |-> "",
                     pw_ok |-> ok])

CallGetUser(t) ==
    \E u \in UserIds :
        Invoke(t, [names |-> <<>>, op |-> "get_user", uid |-> u, pname |-> "", pw_ok |-> TRUE])

CallGetUserWithPermissionNames(t) ==
    \E u \in UserIds :
        Invoke(t, [names |-> <<>>, op |-> "get_user_with_permission_names",
                   uid |-> u, pname |-> "", pw_ok |-> TRUE])

CallUpdateUserPermissions(t) ==
    \E u \in UserIds, ns \in NameLists :
        Invoke(t, [names |-> ns, op |-> "update_user_permissions", uid |-> u,
                   pname |-> "", pw_ok |-> TRUE])

CallCheckPermissions(t) ==
    \E u \in UserIds, ns \in NameLists :
        Invoke(t, [names |-> ns, op |-> "check_permissions", uid |-> u, pname |-> "", pw_ok |-> TRUE])

CallAddPermission(t) ==
    \E n \in Names :
        Invoke(t, [names |-> <<>>, op |-> "add_permission", uid |-> 0, pname |-> n, pw_ok |-> TRUE])

CallRemovePermission(t) ==
    \E n \in Names :
        Invoke(t, [names |-> <<>>, op |-> "remove_permission", uid |-> 0, pname |-> n, pw_ok |-> TRUE])

CallListPermissions(t) ==
    Invoke(t, [names |-> <<>>, op |-> "list_permissions", uid |-> 0, pname |-> "", pw_ok |-> TRUE])

\* ------------------------------------------------------------- lock steps
\* RwLock::read() / write() wait until the lock can be taken.  On a poisoned
\* lock they return Err with the guard inside; map_err drops the guard, so
\* the lock is not kept, and `?` returns the error (get_user: `.ok()?`
\* returns None).  A caller that holds users.read() drops that guard as it
\* returns.

\* self.permissions.read() in permission_names_to_bits
NamesToBitsLock(t) ==
    /\ pc[t] = "ntb_lock"
    /\ CanRead(permLock)
    /\ IF poisoned.perm
       THEN /\ Finish(t, ErrReadLock)
            /\ userLock' = IF call[t].op = "check_permissions"
                           THEN ReadUnlocked(userLock, t) ELSE userLock
            /\ UNCHANGED permLock
       ELSE /\ permLock' = ReadLocked(permLock, t)
            /\ Goto(t, "ntb_body")
            /\ UNCHANGED <<ret, userLock>>
    /\ UNCHANGED <<permissions, users, call, local, calls, poisoned>>

\* self.permissions.read() in bits_to_permission_names
BitsToNamesLock(t) ==
    /\ pc[t] = "btn_lock"
    /\ CanRead(permLock)
    /\ IF poisoned.perm
       THEN /\ Finish(t, ErrReadLock)
            /\ userLock' = ReadUnlocked(userLock, t)
            /\ UNCHANGED permLock
       ELSE /\ permLock' = ReadLocked(permLock, t)
            /\ Goto(t, "btn_body")
            /\ UNCHANGED <<ret, userLock>>
    /\ UNCHANGED <<permissions, users, call, local, calls, poisoned>>

\* self.permissions.read() in list_permissions
ListPermissionsLock(t) ==
    /\ pc[t] = "lp_lock"
    /\ CanRead(permLock)
    /\ IF poisoned.perm
       THEN Finish(t, ErrReadLock) /\ UNCHANGED permLock
       ELSE /\ permLock' = ReadLocked(permLock, t)
            /\ Goto(t, "lp_body")
            /\ UNCHANGED ret
    /\ UNCHANGED <<permissions, users, userLock, call, local, calls, poisoned>>

\* self.permissions.write() in add_permission
AddPermissionLock(t) ==
    /\ pc[t] = "ap_lock"
    /\ CanWrite(permLock)
    /\ IF poisoned.perm
       THEN Finish(t, ErrWriteLock) /\ UNCHANGED permLock
       ELSE /\ permLock' = WriteLocked(permLock, t)
            /\ Goto(t, "ap_body")
            /\ UNCHANGED ret
    /\ UNCHANGED <<permissions, users, userLock, call, local, calls, poisoned>>

\* self.permissions.write() in remove_permission
RemovePermissionLock(t) ==
    /\ pc[t] = "rp_lock"
    /\ CanWrite(permLock)
    /\ IF poisoned.perm
       THEN Finish(t, ErrWriteLock) /\ UNCHANGED permLock
       ELSE /\ permLock' = WriteLocked(permLock, t)
            /\ Goto(t, "rp_body")
            /\ UNCHANGED ret
    /\ UNCHANGED <<permissions, users, userLock, call, local, calls, poisoned>>

\* self.users.write() in create_user
CreateUserLock(t) ==
    /\ pc[t] = "cu_lock"
    /\ CanWrite(userLock)
    /\ IF poisoned.user
       THEN Finish(t, ErrWriteLock) /\ UNCHANGED userLock
       ELSE /\ userLock' = WriteLocked(userLock, t)
            /\ Goto(t, "cu_body")
            /\ UNCHANGED ret
    /\ UNCHANGED <<permissions, users, permLock, call, local, calls, poisoned>>

\* self.users.write() in update_user_permissions
UpdateUserPermissionsLock(t) ==
    /\ pc[t] = "up_lock"
    /\ CanWrite(userLock)
    /\ IF poisoned.user
       THEN Finish(t, ErrWriteLock) /\ UNCHANGED userLock
       ELSE /\ userLock' = WriteLocked(userLock, t)
            /\ Goto(t, "up_body")
            /\ UNCHANGED ret
    /\ UNCHANGED <<permissions, users, permLock, call, local, calls, poisoned>>

\* what get_user makes of a failed users.read(): `.ok()?` turns it into None
GetUserLockFailure == None

\* self.users.read() in get_user
GetUserLock(t) ==
    /\ pc[t] = "gu_lock"
    /\ CanRead(userLock)
    /\ IF poisoned.user
       THEN Finish(t, GetUserLockFailure) /\ UNCHANGED userLock
       ELSE /\ userLock' = ReadLocked(userLock, t)
            /\ Goto(t, "gu_body")
            /\ UNCHANGED ret
    /\ UNCHANGED <<permissions, users, permLock, call, local, calls, poisoned>>

\* self.users.read() in get_user_with_permission_names
GetUserWithPermissionNamesLock(t) ==
    /\ pc[t] = "gw_lock"
    /\ CanRead(userLock)
    /\ IF poisoned.user
       THEN Finish(t, ErrReadLock) /\ UNCHANGED userLock
       ELSE /\ userLock' = ReadLocked(userLock, t)
            /\ Goto(t, "gw_body")
            /\ UNCHANGED ret
    /\ UNCHANGED <<permissions, users, permLock, call, local, calls, poisoned>>

\* self.users.read() in check_permissions
CheckPermissionsLock(t) ==
    /\ pc[t] = "ck_lock"
    /\ CanRead(userLock)
    /\ IF poisoned.user
       THEN Finish(t, ErrReadLock) /\ UNCHANGED userLock
       ELSE /\ userLock' = ReadLocked(userLock, t)
            /\ Goto(t, "ck_body")
            /\ UNCHANGED ret
    /\ UNCHANGED <<permissions, users, permLock, call, local, calls, poisoned>>

\* ------------------------------------------------------------- bodies
\* a plausible slip: any required bit held counts as all of them held
HasAllAny(user_bits, required_bits) ==
    required_bits = Zero \/ BitAnd(user_bits, required_bits) # Zero

\* a plausible slip: the masks compared for equality
HasAllExact(user_bits, required_bits) == user_bits = required_bits

\* (user.permissions & required_bits) == required_bits
HasAll(user_bits, required_bits) == BitAnd(user_bits, required_bits) = required_bits

\* required_bits & !user.permissions
MissingBits(user_bits, required_bits) == BitAnd(required_bits, BitNot(user_bits))

\* a plausible slip: the new bits are merged into the old ones
UpdatedMaskMerged(old_bits, permissions_bits) == BitOr(old_bits, permissions_bits)

\* user.permissions = permissions_bits
UpdatedMask(old_bits, permissions_bits) == permissions_bits

\* what the TODO in remove_permission asks for and the code does not do
UsersAfterRemoveCleared(us, value) == [u \in DOMAIN us |-> us[u] \ value]

\* permissions.remove(name) leaves the users map alone
UsersAfterRemove(us, value) == us

\* check_permissions on one user's bits when the registry does not change
\* between its two reads (names to bits, then missing bits to names)
check_permissions(perms, user_bits, names) ==
    LET res == permission_names_to_bits(perms, names)
    IN  IF ~res.ok THEN res
        ELSE LET missing_bits == MissingBits(user_bits, res.val)
             IN  Ok(<<HasAll(user_bits, res.val),
                      IF missing_bits = Zero THEN <<>>
                      ELSE bits_to_permission_names(perms, missing_bits)>>)

\* permission_names_to_bits, from the read lock to its release at return.
\* create_user (unless User::new fails to hash the password: pw_ok is whether
\* bcrypt accepts it) and update_user_permissions go on to the users lock;
\* check_permissions, which holds users.read() meanwhile, computes has_all and
\* missing_bits and returns at once when nothing is missing.
NamesToBitsBody(t) ==
    /\ pc[t] = "ntb_body"
    /\ permLock' = ReadUnlocked(permLock, t)
    /\ LET res == permission_names_to_bits(permissions, call[t].names)
           op  == call[t].op
       IN  IF ~res.ok
           THEN /\ Finish(t, res)
                /\ userLock' = IF op = "check_permissions"
                               THEN ReadUnlocked(userLock, t) ELSE userLock
                /\ UNCHANGED local
           ELSE IF op = "check_permissions"
           THEN LET has_all == HasAll(users[call[t].uid], res.val)
                    missing_bits == MissingBits(users[call[t].uid], res.val)
                IN  /\ local' = [local EXCEPT ![t] =
                                   [bits |-> res.val, has_all |-> has_all,
                                    missing_bits |-> missing_bits]]
                    /\ IF missing_bits = Zero
                       THEN /\ Finish(t, Ok(<<has_all, <<>>>>))
                            /\ userLock' = ReadUnlocked(userLock, t)
                       ELSE /\ Goto(t, "btn_lock")
                            /\ UNCHANGED <<ret, userLock>>
           ELSE IF op = "create_user" /\ ~call[t].pw_ok
           THEN /\ Finish(t, ErrHash)
                /\ UNCHANGED <<local, userLock>>
           ELSE /\ local' = [local EXCEPT ![t].bits = res.val]
                /\ Goto(t, IF op = "create_user" THEN "cu_lock" ELSE "up_lock")
                /\ UNCHANGED <<ret, userLock>>
    /\ UNCHANGED <<permissions, users, call, calls, poisoned>>

\* bits_to_permission_names, from the read lock to its release at return; the
\* caller (check_permissions or get_user_with_permission_names) then returns
\* and drops its users.read() guard.
BitsToNamesBody(t) ==
    /\ pc[t] = "btn_body"
    /\ permLock' = ReadUnlocked(permLock, t)
    /\ userLock' = ReadUnlocked(userLock, t)
    /\ IF call[t].op = "check_permissions"
       THEN Finish(t, Ok(<<local[t].has_all,
                           bits_to_permission_names(permissions, local[t].missing_bits)>>))
       ELSE Finish(t, Ok(Some(<<User(call[t].uid, users[call[t].uid]),
                           bits_to_permission_names(permissions, users[call[t].uid])>>)))
    /\ UNCHANGED <<permissions, users, call, local, calls, poisoned>>

\* create_user under users.write(): insert the new user, return it
CreateUserBody(t) ==
    /\ pc[t] = "cu_body"
    /\ \E id \in FreshIds :
          /\ users' = [u \in DOMAIN users \cup {id} |->
                          IF u = id THEN local[t].bits ELSE users[u]]
          /\ Finish(t, Ok(User(id, local[t].bits)))
    /\ userLock' = WriteUnlocked(userLock, t)
    /\ UNCHANGED <<permissions, permLock, call, local, calls, poisoned>>

\* update_user_permissions under users.write()
UpdateUserPermissionsBody(t) ==
    /\ pc[t] = "up_body"
    /\ LET id == call[t].uid
       IN  IF id \in DOMAIN users
           THEN LET m == UpdatedMask(users[id], local[t].bits)
                IN  /\ users' = [users EXCEPT ![id] = m]
                    /\ Finish(t, Ok(User(id, m)))
           ELSE /\ Finish(t, ErrNoUser)
                /\ UNCHANGED users
    /\ userLock' = WriteUnlocked(userLock, t)
    /\ UNCHANGED <<permissions, permLock, call, local, calls, poisoned>>

\* get_user under users.read()
GetUserBody(t) ==
    /\ pc[t] = "gu_body"
    /\ LET id == call[t].uid
       IN  Finish(t, IF id \in DOMAIN users THEN Some(User(id, users[id])) ELSE None)
    /\ userLock' = ReadUnlocked(userLock, t)
    /\ UNCHANGED <<permissions, users, permLock, call, local, calls, poisoned>>

\* get_user_with_permission_names under users.read(): an unknown id returns
\* Ok(None); otherwise bits_to_permission_names is called with the guard held
GetUserWithPermissionNamesBody(t) ==
    /\ pc[t] = "gw_body"
    /\ IF call[t].uid \in DOMAIN users
       THEN /\ Goto(t, "btn_lock")
            /\ UNCHANGED <<ret, userLock>>
       ELSE /\ Finish(t, Ok(None))
            /\ userLock' = ReadUnlocked(userLock, t)
    /\ UNCHANGED <<permissions, users, permLock, call, local, calls, poisoned>>

\* check_permissions under users.read(): an unknown id fails; otherwise
\* permission_names_to_bits is called with the guard held
CheckPermissionsBody(t) ==
    /\ pc[t] = "ck_body"
    /\ IF call[t].uid \in DOMAIN users
       THEN /\ Goto(t, "ntb_lock")
            /\ UNCHANGED <<ret, userLock>>
       ELSE /\ Finish(t, ErrNoUser)
            /\ userLock' = ReadUnlocked(userLock, t)
    /\ UNCHANGED <<permissions, users, permLock, call, local, calls, poisoned>>

\* add_permission under permissions.write()
\* upper-case form of the names the requests use
UpperCase(n) == IF n = "write" THEN "WRITE" ELSE n

\* a plausible slip: the name is looked up ignoring case
ContainsKeyIgnoreCase(perms, name) ==
    \E m \in DOMAIN perms : UpperCase(m) = UpperCase(name)

\* HashMap::contains_key: String equality, byte for byte
ContainsKey(perms, name) == name \in DOMAIN perms

AddPermissionBody(t) ==
    /\ pc[t] = "ap_body"
    /\ LET name == call[t].pname
           next == NextValue(permissions)
       IN  IF ContainsKey(permissions, name)
           THEN /\ Finish(t, ErrExists)
                /\ UNCHANGED permissions
           ELSE IF ~next.ok
           THEN /\ Finish(t, next)
                /\ UNCHANGED permissions
           ELSE LET permission == [name |-> name, value |-> next.val]
                IN  /\ permissions' = [n \in DOMAIN permissions \cup {name} |->
                                          IF n = name THEN permission ELSE permissions[n]]
                    /\ Finish(t, Ok(permission))
    /\ permLock' = WriteUnlocked(permLock, t)
    /\ UNCHANGED <<users, userLock, call, local, calls, poisoned>>

\* remove_permission under permissions.write()
\* a plausible slip: the remaining permissions are renumbered to close the gap
RegistryCompacted(perms, name) ==
    LET rest == DOMAIN perms \ {name}
    IN  [n \in rest |->
            [name |-> n,
             value |-> {Cardinality({m \in rest :
                                       U64Less(perms[m].value, perms[n].value)})}]]

\* HashMap::remove: the other entries stay as they are
RegistryWithout(perms, name) == [n \in DOMAIN perms \ {name} |-> perms[n]]

RemovePermissionBody(t) ==
    /\ pc[t] = "rp_body"
    /\ LET name == call[t].pname
       IN  IF name \in DOMAIN permissions
           THEN /\ permissions' = RegistryWithout(permissions, name)
                /\ users' = UsersAfterRemove(users, permissions[name].value)
                /\ Finish(t, Ok(<<>>))
           ELSE /\ Finish(t, ErrNoPerm)
                /\ UNCHANGED <<permissions, users>>
    /\ permLock' = WriteUnlocked(permLock, t)
    /\ UNCHANGED <<userLock, call, local, calls, poisoned>>

\* list_permissions under permissions.read()
ListPermissionsBody(t) ==
    /\ pc[t] = "lp_body"
    /\ Finish(t, Ok(ListPermissions(permissions)))
    /\ permLock' = ReadUnlocked(permLock, t)
    /\ UNCHANGED <<permissions, users, userLock, call, local, calls, poisoned>>

\* ------------------------------------------------------------- specification
Next ==
    \E t \in Tasks :
        \/ CallCreateUser(t)
        \/ CallGetUser(t)
        \/ CallGetUserWithPermissionNames(t)
        \/ CallUpdateUserPermissions(t)
        \/ CallCheckPermissions(t)
        \/ CallAddPermission(t)
        \/ CallRemovePermission(t)
        \/ CallListPermissions(t)
        \/ NamesToBitsLock(t)
        \/ NamesToBitsBody(t)
        \/ BitsToNamesLock(t)
        \/ BitsToNamesBody(t)
        \/ CreateUserLock(t)
        \/ CreateUserBody(t)
        \/ UpdateUserPermissionsLock(t)
        \/ UpdateUserPermissionsBody(t)
        \/ GetUserLock(t)
        \/ GetUserBody(t)
        \/ GetUserWithPermissionNamesLock(t)
        \/ GetUserWithPermissionNamesBody(t)
        \/ CheckPermissionsLock(t)
        \/ CheckPermissionsBody(t)
        \/ AddPermissionLock(t)
        \/ AddPermissionBody(t)
        \/ RemovePermissionLock(t)
        \/ RemovePermissionBody(t)
        \/ ListPermissionsLock(t)
        \/ ListPermissionsBody(t)

Spec == Init /\ [][Next]_vars

\* ------------------------------------------------------------- properties
RegisteredValues == {permissions[n].value : n \in DOMAIN permissions}
Range(seq) == {seq[i] : i \in 1..Len(seq)}
HoldsPermLock(t) == t \in permLock.readers \/ permLock.writer = t
HoldsUserLock(t) == t \in userLock.readers \/ userLock.writer = t
Returns(t, from) == pc[t] = from /\ pc'[t] = "done"

\* C1: in every reachable state every registered permission's value has
\* exactly one bit set, and no two registered permissions share a value.
C1_OneBitDistinct ==
    /\ \A n \in DOMAIN permissions :
          /\ permissions[n].name = n
          /\ permissions[n].value \subseteq BitPos
          /\ Cardinality(permissions[n].value) = 1
    /\ \A m, n \in DOMAIN permissions :
          permissions[m].value = permissions[n].value => m = n

\* C1 witness: the registry has been through a removal and a registration
\* (WRITE is gone, ADMIN is there) and a task is about to register again.
C1_Witness ==
    /\ "ADMIN" \in DOMAIN permissions
    /\ "WRITE" \notin DOMAIN permissions
    /\ \E t \in Tasks : pc[t] = "ap_body" /\ call[t].pname = "WRITE"

\* the lowest bit position that no registered permission has as its value
LowestFreeBit(perms) ==
    CHOOSE k \in BitPos :
        /\ \A n \in DOMAIN perms : perms[n].value # {k}
        /\ \A j \in 0..(k - 1) : \E n \in DOMAIN perms : perms[n].value = {j}

\* C2: a successful add_permission of a new name assigns the lowest power of
\* two that is not the value of a registered permission (so a freed bit below
\* the maximum is reused); used {1,2,4,8} gives 16 and used {1,4} gives 2.
C2_LowestFree ==
    /\ find_next_available_bit(<<{0}, {1}, {2}, {3}>>) = Ok({4})
    /\ find_next_available_bit(<<{0}, {2}>>) = Ok({1})
    /\ [][\A t \in Tasks :
            (Returns(t, "ap_body") /\ call[t].pname \notin DOMAIN permissions)
            => /\ ret'[t].ok
               /\ call[t].pname \in DOMAIN permissions'
               /\ permissions'[call[t].pname].value = {LowestFreeBit(permissions)}
               /\ ret'[t].val = permissions'[call[t].pname]]_vars

\* C2 witness: ADMIN was registered after WRITE was removed and took WRITE's
\* freed value 2, below the maximum 8 that is still registered.
C2_Witness ==
    /\ \E t \in Tasks :
          /\ pc[t] = "done" /\ call[t].op = "add_permission"
          /\ ret[t] = Ok([name |-> "ADMIN", value |-> {1}])
    /\ "DELETE" \in DOMAIN permissions /\ permissions["DELETE"].value = {3}

\* the OR of the values of the named permissions, all of them registered
OrOfValues(perms, names) == UNION {perms[n].value : n \in Range(names)}

\* strictly ascending in Rust's String order (sorted, no name twice)
StrictlySorted(seq) == \A i \in 1..(Len(seq) - 1) : StrLess(seq[i], seq[i + 1])

\* C3: update_user_permissions replaces the stored mask. When a user who
\* holds the registered names A is updated with a list B that is disjoint
\* from A, the stored mask becomes exactly the OR of B's bits, no bit of A
\* remains, check_permissions succeeds for every list of names of B and
\* reports every name of A as missing.
C3_UpdateReplaces ==
    [][\A t \in Tasks :
        (/\ Returns(t, "up_body")
         /\ call[t].uid \in DOMAIN users
         /\ permission_names_to_bits(permissions, call[t].names) = Ok(local[t].bits))
        => LET id == call[t].uid
               B  == Range(call[t].names)
               A  == {n \in DOMAIN permissions \ B :
                         BitAnd(users[id], permissions[n].value) # Zero}
           IN  /\ ret'[t] = Ok(User(id, users'[id]))
               /\ users'[id] = OrOfValues(permissions, call[t].names)
               /\ \A n \in A : BitAnd(users'[id], permissions[n].value) = Zero
               /\ \A n \in A :
                     check_permissions(permissions, users'[id], <<n>>)
                         = Ok(<<FALSE, <<n>>>>)
               /\ \A req \in NameLists :
                     Range(req) \subseteq B
                     => check_permissions(permissions, users'[id], req)
                            = Ok(<<TRUE, <<>>>>)]_vars

\* C3 witness: one task created user 1 with [WRITE], the other updated it
\* with the disjoint list [ADMIN]; the stored mask is ADMIN's value alone.
C3_Witness ==
    \E t1, t2 \in Tasks :
        /\ pc[t1] = "done" /\ call[t1].op = "create_user"
        /\ call[t1].names = <<"WRITE">> /\ ret[t1] = Ok(User(1, {1}))
        /\ pc[t2] = "done" /\ call[t2].op = "update_user_permissions"
        /\ call[t2].uid = 1 /\ call[t2].names = <<"ADMIN">>
        /\ ret[t2] = Ok(User(1, {4}))
        /\ users[1] = {4}

\* the names check_permissions is to report: the required names whose bit
\* the user lacks
LackedNames(perms, user_bits, names) ==
    {n \in Range(names) : BitAnd(perms[n].value, user_bits) = Zero}

\* C4: for an existing user with mask U and registered required names that
\* resolve to R, with no registry change during the call, check_permissions
\* returns allSatisfied = ((U & R) == R) and as missing list the sorted names
\* of exactly the required permissions whose bit is in R & ~U.
C4_CheckResult ==
    [][\A t \in Tasks :
        (/\ call[t].op = "check_permissions"
         /\ Returns(t, "ntb_body") \/ Returns(t, "btn_body")
         /\ permission_names_to_bits(permissions, call[t].names).ok
         /\ pc[t] = "btn_body" =>
               permission_names_to_bits(permissions, call[t].names) = Ok(local[t].bits))
        => LET U == users[call[t].uid]
               R == OrOfValues(permissions, call[t].names)
           IN  /\ ret'[t].ok
               /\ ret'[t].val[1] = (BitAnd(U, R) = R)
               /\ Range(ret'[t].val[2]) = LackedNames(permissions, U, call[t].names)
               /\ StrictlySorted(ret'[t].val[2])]_vars

\* C4 witness: a check of [WRITE, ADMIN] on a user without either returned
\* (false, [ADMIN, WRITE]): both names missing, in sorted order.
C4_Witness ==
    \E t \in Tasks :
        /\ pc[t] = "done" /\ call[t].op = "check_permissions"
        /\ call[t].names = <<"WRITE", "ADMIN">>
        /\ ret[t] = Ok(<<FALSE, <<"ADMIN", "WRITE">>>>)

\* the codec round trip on one list of registered names
RoundTrip(perms, names) ==
    bits_to_permission_names(perms, permission_names_to_bits(perms, names).val)

\* the round trip returns the sorted names of S for every set S of names
\* registered in perms, and for every request list of registered names
RoundTripHolds(perms) ==
    /\ \A S \in SUBSET DOMAIN perms :
          LET names == SetToSeq(S)
              out   == RoundTrip(perms, names)
          IN  /\ permission_names_to_bits(perms, names).ok
              /\ Range(out) = S
              /\ StrictlySorted(out)
    /\ \A req \in NameLists :
          Range(req) \subseteq DOMAIN perms
          => LET out == RoundTrip(perms, req)
             IN  Range(out) = Range(req) /\ StrictlySorted(out)

\* C5: for every registry reachable by add_permission / remove_permission
\* and every subset S of the registered names,
\* bits_to_permission_names(permission_names_to_bits(S)) is exactly the names
\* of S, sorted, none extra and none missing.  (The registry at construction
\* satisfies it and every step that changes the registry keeps it.)
C5_RoundTrip ==
    /\ RoundTripHolds(permissions)
    /\ [][permissions' # permissions => RoundTripHolds(permissions')]_vars

\* C5 witness: with ADMIN registered, a user created from [WRITE, ADMIN] was
\* read back by get_user_with_permission_names as [ADMIN, WRITE].
C5_Witness ==
    \E t \in Tasks, u \in DOMAIN users :
        /\ pc[t] = "done" /\ call[t].op = "get_user_with_permission_names"
        /\ call[t].uid = u
        /\ {"WRITE", "ADMIN"} \subseteq DOMAIN permissions
        /\ users[u] = OrOfValues(permissions, <<"WRITE", "ADMIN">>)
        /\ ret[t] = Ok(Some(<<User(u, users[u]), <<"ADMIN", "WRITE">>>>))

\* C6: for an existing user, check_permissions with an empty required list
\* returns (true, []) whatever the stored mask and the registry.
C6_EmptyRequired ==
    [][\A t \in Tasks :
        (/\ call[t].op = "check_permissions"
         /\ call[t].names = <<>>
         /\ call[t].uid \in DOMAIN users
         /\ pc[t] \in {"ck_body", "ntb_body"})
        => \/ pc'[t] = "done" /\ ret'[t] = Ok(<<TRUE, <<>>>>)
           \/ pc[t] = "ck_body" /\ pc'[t] \in {"ck_body", "ntb_lock"}
           \/ pc'[t] = pc[t]]_vars

\* C6 witness: check_permissions with [] returned (true, []) for a user
\* whose mask is not empty, after the registry lost WRITE.
C6_Witness ==
    \E t \in Tasks :
        /\ pc[t] = "done" /\ call[t].op = "check_permissions"
        /\ call[t].names = <<>> /\ ret[t] = Ok(<<TRUE, <<>>>>)
        /\ call[t].uid \in DOMAIN users /\ users[call[t].uid] # Zero
        /\ "WRITE" \notin DOMAIN permissions

\* the first name of the list that is not registered
FirstUnregistered(perms, names) ==
    names[CHOOSE i \in 1..Len(names) :
            /\ names[i] \notin DOMAIN perms
            /\ \A j \in 1..(i - 1) : names[j] \in DOMAIN perms]

\* C7 as stated: every check_permissions whose list has an unregistered name
\* fails with PermissionNotFound naming it, never with another result.
C7_Original ==
    [][\A t \in Tasks :
        (/\ call[t].op = "check_permissions"
         /\ pc[t] \in {"ck_body", "ntb_body"} /\ pc'[t] = "done"
         /\ ~(Range(call[t].names) \subseteq DOMAIN permissions))
        => ret'[t] = ErrNotFound(FirstUnregistered(permissions, call[t].names))]_vars

\* C7 amended: for an existing user, check_permissions whose list has an
\* unregistered name fails with PermissionNotFound naming the first such
\* name and never returns a (false, missing) result; for an unknown user id
\* it fails with UserNotFound before any name is looked at.
C7_UnregisteredName ==
    [][\A t \in Tasks :
        (/\ call[t].op = "check_permissions"
         /\ pc[t] \in {"ck_body", "ntb_body"} /\ pc'[t] # pc[t]
         /\ ~(Range(call[t].names) \subseteq DOMAIN permissions))
        => IF pc[t] = "ntb_body"
           THEN /\ pc'[t] = "done"
                /\ ret'[t] = ErrNotFound(FirstUnregistered(permissions, call[t].names))
           ELSE IF call[t].uid \in DOMAIN users
                THEN pc'[t] = "ntb_lock"
                ELSE pc'[t] = "done" /\ ret'[t] = ErrNoUser]_vars

\* C7 witness: a check of an existing user with [WRITE, ADMIN], ADMIN not
\* registered, returned PermissionNotFound(ADMIN).
C7_Witness ==
    \E t \in Tasks :
        /\ pc[t] = "done" /\ call[t].op = "check_permissions"
        /\ call[t].uid \in DOMAIN users
        /\ call[t].names = <<"WRITE", "ADMIN">>
        /\ "ADMIN" \notin DOMAIN permissions
        /\ ret[t] = ErrNotFound("ADMIN")

\* C8: no step removes a user, and a step changes a user's stored mask only
\* if it is a successful update_user_permissions on that user's id, which
\* changes no other user's mask.
C8_UserFrame ==
    [][\A u \in DOMAIN users :
        /\ u \in DOMAIN users'
        /\ users'[u] # users[u]
           => \E t \in Tasks :
                 /\ Returns(t, "up_body")
                 /\ call[t].op = "update_user_permissions" /\ call[t].uid = u
                 /\ ret'[t].ok
                 /\ \A v \in DOMAIN users \ {u} : users'[v] = users[v]]_vars

\* C8 witness: remove_permission(WRITE) has returned Ok and a second user has
\* been created while user 1 still carries WRITE's bit.
C8_Witness ==
    /\ \E t \in Tasks :
          /\ pc[t] = "done" /\ call[t].op = "remove_permission"
          /\ call[t].pname = "WRITE" /\ ret[t].ok
    /\ DOMAIN users = {1, 2}
    /\ users[1] = {1}

\* C9: bits_to_permission_names(mask) returns exactly the sorted names of the
\* permissions now in the registry whose bit is set in mask; so the names
\* get_user_with_permission_names reports never include a removed permission
\* while the stored mask, returned unchanged, still has its bit.
C9_BitsToNames ==
    [][\A t \in Tasks :
        Returns(t, "btn_body")
        => LET gw   == call[t].op = "get_user_with_permission_names"
               mask == IF gw THEN users[call[t].uid] ELSE local[t].missing_bits
               out  == IF gw THEN ret'[t].val.val[2] ELSE ret'[t].val[2]
           IN  /\ ret'[t].ok
               /\ Range(out) = {n \in DOMAIN permissions :
                                   permissions[n].value \subseteq mask}
               /\ StrictlySorted(out)
               /\ gw => /\ ret'[t].val.val[1] = User(call[t].uid, users[call[t].uid])
                        /\ users' = users]_vars

\* C9 witness: after remove_permission(WRITE), get_user_with_permission_names
\* of a user whose mask still has WRITE's bit returned no name at all.
C9_Witness ==
    \E t \in Tasks :
        /\ pc[t] = "done" /\ call[t].op = "get_user_with_permission_names"
        /\ "WRITE" \notin DOMAIN permissions
        /\ call[t].uid \in DOMAIN users /\ users[call[t].uid] = {1}
        /\ ret[t] = Ok(Some(<<User(call[t].uid, {1}), <<>>>>))

\* C10 as stated: no task ever holds the registry lock and the
\* user-directory lock at the same time.
C10_Original ==
    \A t \in Tasks : ~(HoldsPermLock(t) /\ HoldsUserLock(t))

\* C10 amended: create_user and update_user_permissions resolve the names
\* under the registry read lock, release it and only then take the
\* user-directory write lock, never holding both; check_permissions and
\* get_user_with_permission_names take the user-directory read lock first
\* and take the registry read lock while still holding it.  No task takes
\* the user-directory lock while it holds the registry lock.
C10_LockOrder ==
    [][\A t \in Tasks :
        /\ (HoldsUserLock(t)' /\ ~HoldsUserLock(t)) => ~HoldsPermLock(t)
        /\ (HoldsPermLock(t)' /\ ~HoldsPermLock(t) /\ HoldsUserLock(t))
           => /\ call[t].op \in {"check_permissions", "get_user_with_permission_names"}
              /\ t \in userLock.readers /\ t \in permLock'.readers
        /\ (HoldsPermLock(t)' /\ HoldsUserLock(t)')
           => call'[t].op \in {"check_permissions", "get_user_with_permission_names"}
        /\ (call[t].op \in {"create_user", "update_user_permissions"}
            /\ HoldsUserLock(t)' /\ ~HoldsUserLock(t))
           => /\ userLock'.writer = t
              /\ pc[t] \in {"cu_lock", "up_lock"}]_vars

\* C10 witness: check_permissions holds the user-directory read lock and the
\* registry read lock together while it resolves the required names.
C10_Witness ==
    \E t \in Tasks :
        /\ call[t].op = "check_permissions" /\ pc[t] = "ntb_body"
        /\ t \in userLock.readers /\ t \in permLock.readers

\* ------------------------------------------------------------- waiting
MidOp(t) == pc[t] \notin {"idle", "done", "panicked"}

\* the steps of task t's current operation (everything but a new invocation)
StepOf(t) ==
    \/ NamesToBitsLock(t)
    \/ NamesToBitsBody(t)
    \/ BitsToNamesLock(t)
    \/ BitsToNamesBody(t)
    \/ CreateUserLock(t)
    \/ CreateUserBody(t)
    \/ UpdateUserPermissionsLock(t)
    \/ UpdateUserPermissionsBody(t)
    \/ GetUserLock(t)
    \/ GetUserBody(t)
    \/ GetUserWithPermissionNamesLock(t)
    \/ GetUserWithPermissionNamesBody(t)
    \/ CheckPermissionsLock(t)
    \/ CheckPermissionsBody(t)
    \/ AddPermissionLock(t)
    \/ AddPermissionBody(t)
    \/ RemovePermissionLock(t)
    \/ RemovePermissionBody(t)
    \/ ListPermissionsLock(t)
    \/ ListPermissionsBody(t)

PermReadWait  == {"ntb_lock", "btn_lock", "lp_lock"}
PermWriteWait == {"ap_lock", "rp_lock"}
UserReadWait  == {"gu_lock", "gw_lock", "ck_lock"}
UserWriteWait == {"cu_lock", "up_lock"}

\* task t is at an acquisition that the lock state does not allow
Waiting(t) ==
    \/ pc[t] \in PermReadWait  /\ ~CanRead(permLock)
    \/ pc[t] \in PermWriteWait /\ ~CanWrite(permLock)
    \/ pc[t] \in UserReadWait  /\ ~CanRead(userLock)
    \/ pc[t] \in UserWriteWait /\ ~CanWrite(userLock)

\* task t waits for a lock that task u holds
WaitsFor(t, u) ==
    /\ u # t
    /\ \/ pc[t] \in PermReadWait  /\ permLock.writer = u
       \/ pc[t] \in PermWriteWait /\ (permLock.writer = u \/ u \in permLock.readers)
       \/ pc[t] \in UserReadWait  /\ userLock.writer = u
       \/ pc[t] \in UserWriteWait /\ (userLock.writer = u \/ u \in userLock.readers)

\* the acquisition step of task t's current operation
LockStepOf(t) ==
    \/ NamesToBitsLock(t)
    \/ BitsToNamesLock(t)
    \/ CreateUserLock(t)
    \/ UpdateUserPermissionsLock(t)
    \/ GetUserLock(t)
    \/ GetUserWithPermissionNamesLock(t)
    \/ CheckPermissionsLock(t)
    \/ AddPermissionLock(t)
    \/ RemovePermissionLock(t)
    \/ ListPermissionsLock(t)

AtAcquire(t) == pc[t] \in PermReadWait \cup PermWriteWait \cup UserReadWait \cup UserWriteWait

\* C11: no deadlock is reachable.  No non-empty set of tasks has each member
\* waiting for a lock held by another member; a task that waits, waits for a
\* task that is inside an operation and does not wait itself; a task inside
\* an operation that does not wait can take its next step; and the nesting
\* is always users first: a task that holds the registry lock is at no
\* acquisition at all, and a task that holds the user-directory lock is at
\* no acquisition of that lock.
C11_NoDeadlock ==
    /\ \A S \in (SUBSET Tasks) \ {{}} :
          ~ \A t \in S : Waiting(t) /\ \E u \in S : WaitsFor(t, u)
    /\ \A t \in Tasks :
          Waiting(t) => \E u \in Tasks : WaitsFor(t, u) /\ MidOp(u) /\ ~Waiting(u)
    /\ \A t \in Tasks : MidOp(t) /\ ~Waiting(t) => ENABLED StepOf(t)
    /\ \A t \in Tasks : HoldsPermLock(t) => MidOp(t) /\ ~AtAcquire(t)
    /\ \A t \in Tasks :
          HoldsUserLock(t) => MidOp(t) /\ pc[t] \notin UserReadWait \cup UserWriteWait

\* a task of check_permissions holds users.read and waits for the registry
\* lock, which a writer holds, while nobody waits for the former
C11_Witness ==
    \E t, u \in Tasks :
        /\ pc[t] = "ntb_lock" /\ call[t].op = "check_permissions"
        /\ t \in userLock.readers
        /\ Waiting(t) /\ WaitsFor(t, u)
        /\ pc[u] \in {"ap_body", "rp_body"}

\* ------------------------------------------------------------- scenario
\* The client's run (client.rs, tests 1 to 5): one task issues the calls one
\* after the other, each once the previous one has returned; `calls` counts
\* the calls issued.  The other tasks serve read-only requests meanwhile.
ScenarioTask == 1

Scenario ==
    << [names |-> <<"READ", "WRITE">>, op |-> "create_user", uid |-> 0,
        pname |-> "", pw_ok |-> TRUE],
       [names |-> <<"READ", "WRITE">>, op |-> "check_permissions", uid |-> 0,
        pname |-> "", pw_ok |-> TRUE],
       [names |-> <<"EXECUTE">>, op |-> "check_permissions", uid |-> 0,
        pname |-> "", pw_ok |-> TRUE],
       [names |-> <<>>, op |-> "add_permission", uid |-> 0,
        pname |-> "ADMIN", pw_ok |-> TRUE],
       [names |-> <<"READ", "WRITE", "EXECUTE", "ADMIN">>,
        op |-> "update_user_permissions", uid |-> 0, pname |-> "", pw_ok |-> TRUE],
       [names |-> <<"READ", "EXECUTE", "ADMIN">>, op |-> "check_permissions", uid |-> 0,
        pname |-> "", pw_ok |-> TRUE] >>

\* the id create_user returned (the only user of the run)
ScenarioUser == IF DOMAIN users = {} THEN 0 ELSE CHOOSE u \in DOMAIN users : TRUE

ScenarioCall(t) ==
    /\ t = ScenarioTask
    /\ pc[t] = IF calls = 0 THEN "idle" ELSE "done"
    /\ calls < Len(Scenario)
    /\ calls' = calls + 1
    /\ call' = [call EXCEPT ![t] = [Scenario[calls + 1] EXCEPT !.uid = ScenarioUser]]
    /\ local' = [local EXCEPT ![t] = NoLocal]
    /\ ret' = [ret EXCEPT ![t] = NoRet]
    /\ Goto(t, FirstPc(Scenario[calls + 1].op))
    /\ UNCHANGED <<permissions, users, permLock, userLock, poisoned>>

\* get_user, get_user_with_permission_names or list_permissions from
\* another client
ObserverCall(t) ==
    /\ t # ScenarioTask
    /\ pc[t] \in {"idle", "done"}
    /\ \E op \in {"get_user", "get_user_with_permission_names", "list_permissions"},
          u \in UserIds :
          /\ call' = [call EXCEPT ![t] =
                        [names |-> <<>>, op |-> op,
                         uid |-> IF op = "list_permissions" THEN 0 ELSE u,
                         pname |-> "", pw_ok |-> TRUE]]
          /\ Goto(t, FirstPc(op))
    /\ local' = [local EXCEPT ![t] = NoLocal]
    /\ ret' = [ret EXCEPT ![t] = NoRet]
    /\ UNCHANGED <<permissions, users, permLock, userLock, calls, poisoned>>

ScenarioNext ==
    \E t \in Tasks :
        \/ ScenarioCall(t)
        \/ ObserverCall(t)
        \/ NamesToBitsLock(t)
        \/ NamesToBitsBody(t)
        \/ BitsToNamesLock(t)
        \/ BitsToNamesBody(t)
        \/ CreateUserLock(t)
        \/ CreateUserBody(t)
        \/ UpdateUserPermissionsLock(t)
        \/ UpdateUserPermissionsBody(t)
        \/ GetUserLock(t)
        \/ GetUserBody(t)
        \/ GetUserWithPermissionNamesLock(t)
        \/ GetUserWithPermissionNamesBody(t)
        \/ CheckPermissionsLock(t)
        \/ CheckPermissionsBody(t)
        \/ AddPermissionLock(t)
        \/ AddPermissionBody(t)
        \/ ListPermissionsLock(t)
        \/ ListPermissionsBody(t)

SpecScenario == Init /\ [][ScenarioNext]_vars

\* the u64 with value n (n below 2^31)
U64(n) == {i \in 0..30 : (n \div (2 ^ i)) % 2 = 1}

\* the scenario's call number k has returned
Returned(k) == calls = k /\ pc[ScenarioTask] = "done"

\* C12: from the freshly constructed manager (registry READ=1, WRITE=2,
\* EXECUTE=4, DELETE=8, no users) the run gives: create_user([READ, WRITE])
\* stores mask 3; check([READ, WRITE]) = (true, []); check([EXECUTE]) =
\* (false, [EXECUTE]); add_permission("ADMIN") returns value 16;
\* update_user_permissions([READ, WRITE, EXECUTE, ADMIN]) stores mask 23;
\* check([READ, EXECUTE, ADMIN]) = (true, []).
C12_Scenario ==
    LET r == ret[ScenarioTask]
    IN  /\ calls = 0 =>
              /\ users = << >>
              /\ DOMAIN permissions = {"READ", "WRITE", "EXECUTE", "DELETE"}
              /\ permissions["READ"].value = U64(1)
              /\ permissions["WRITE"].value = U64(2)
              /\ permissions["EXECUTE"].value = U64(4)
              /\ permissions["DELETE"].value = U64(8)
        /\ Returned(1) =>
              /\ r.ok /\ r.val = User(ScenarioUser, U64(3))
              /\ DOMAIN users = {ScenarioUser} /\ users[ScenarioUser] = U64(3)
        /\ Returned(2) => r = Ok(<<TRUE, <<>>>>)
        /\ Returned(3) => r = Ok(<<FALSE, <<"EXECUTE">>>>)
        /\ Returned(4) =>
              /\ r = Ok([name |-> "ADMIN", value |-> U64(16)])
              /\ permissions["ADMIN"].value = U64(16)
        /\ Returned(5) =>
              /\ r = Ok(User(ScenarioUser, U64(23)))
              /\ users[ScenarioUser] = U64(23)
        /\ Returned(6) => r = Ok(<<TRUE, <<>>>>)

\* the last check of the run has returned, with the mask 23 stored, while
\* another client is being served
C12_Witness ==
    /\ Returned(6)
    /\ ret[ScenarioTask] = Ok(<<TRUE, <<>>>>)
    /\ users = (ScenarioUser :> U64(23))
    /\ \E t \in Tasks : t # ScenarioTask /\ pc[t] \notin {"idle", "done"}

\* ------------------------------------------------------------- full registry
\* A registry that earlier add_permission calls have filled: the defaults at
\* positions 0 to 3, one added permission at every later position, and some
\* of those removed again.  add_permission and remove_permission then run
\* on it.
FillName(i) == "P" \o ToString(i)

HolePositions == {31, BITS - 1}

FilledRegistry(holes) ==
    LET names == DefaultNames \cup {FillName(i) : i \in (4..(BITS - 1)) \ holes}
    IN  [n \in names |->
            IF n \in DefaultNames THEN DefaultPermissions[n]
            ELSE [name |-> n,
                  value |-> {CHOOSE i \in 4..(BITS - 1) : FillName(i) = n}]]

\* the calls that filled the registry are over; the run has two more
InitFull ==
    /\ \E holes \in SUBSET HolePositions : permissions = FilledRegistry(holes)
    /\ users = << >>
    /\ permLock = Unlocked
    /\ userLock = Unlocked
    /\ pc = [t \in Tasks |-> "idle"]
    /\ call = [t \in Tasks |-> NoCall]
    /\ local = [t \in Tasks |-> NoLocal]
    /\ ret = [t \in Tasks |-> NoRet]
    /\ calls = MaxCalls - 2
    /\ poisoned = [perm |-> FALSE, user |-> FALSE]

NextFull ==
    \E t \in Tasks :
        \/ CallAddPermission(t)
        \/ CallRemovePermission(t)
        \/ AddPermissionLock(t)
        \/ AddPermissionBody(t)
        \/ RemovePermissionLock(t)
        \/ RemovePermissionBody(t)

SpecFull == InitFull /\ [][NextFull]_vars

AllPositionsHeld == \A i \in BitPos : {i} \in RegisteredValues

\* C13: add_permission of a new name fails with the slots-exhausted error
\* exactly when all 64 bit positions are held by registered permissions, and
\* succeeds whenever a position is free; a failed allocation leaves the
\* registry unchanged, and the registry never holds more than 64 permissions.
C13_SlotsExhausted ==
    /\ [](Cardinality(DOMAIN permissions) <= BITS)
    /\ [][\A t \in Tasks :
            Returns(t, "ap_body") /\ call[t].pname \notin DOMAIN permissions =>
                /\ ret'[t] = ErrSlots <=> AllPositionsHeld
                /\ ret'[t].ok <=> ~AllPositionsHeld
                /\ ~ret'[t].ok => permissions' = permissions
                /\ ret'[t].ok =>
                      Cardinality(DOMAIN permissions') = Cardinality(DOMAIN permissions) + 1]_vars

\* add_permission("ADMIN") has failed for lack of a slot on a registry of 64
\* permissions, the highest holding 2^63
C13_Witness ==
    \E t \in Tasks :
        /\ pc[t] = "done" /\ call[t].op = "add_permission"
        /\ call[t].pname \notin DOMAIN permissions
        /\ ret[t] = ErrSlots
        /\ Cardinality(DOMAIN permissions) = BITS
        /\ {BITS - 1} \in RegisteredValues

\* ------------------------------------------------------------- names and case
\* Registry requests whose names differ only in case.
CasedNames == {"WRITE", "write"}

CallAddPermissionCased(t) ==
    \E n \in CasedNames :
        Invoke(t, [names |-> <<>>, op |-> "add_permission", uid |-> 0, pname |-> n,
                   pw_ok |-> TRUE])

CallRemovePermissionCased(t) ==
    \E n \in CasedNames :
        Invoke(t, [names |-> <<>>, op |-> "remove_permission", uid |-> 0, pname |-> n,
                   pw_ok |-> TRUE])

NextCased ==
    \E t \in Tasks :
        \/ CallAddPermissionCased(t)
        \/ CallRemovePermissionCased(t)
        \/ CallListPermissions(t)
        \/ AddPermissionLock(t)
        \/ AddPermissionBody(t)
        \/ RemovePermissionLock(t)
        \/ RemovePermissionBody(t)
        \/ ListPermissionsLock(t)
        \/ ListPermissionsBody(t)

SpecCased == Init /\ [][NextCased]_vars

\* C14: add_permission with a name that is already registered (exact,
\* case-sensitive match) fails with the already-exists error and leaves the
\* registry unchanged; any other name, one that differs from a registered
\* name only in case included, is registered as a new permission with a
\* value no registered permission has, the others keeping theirs.
C14_DuplicateName ==
    [][\A t \in Tasks :
          Returns(t, "ap_body") =>
              LET name == call[t].pname
              IN  /\ name \in DOMAIN permissions =>
                        /\ ret'[t] = ErrExists
                        /\ permissions' = permissions
                  /\ name \notin DOMAIN permissions =>
                        /\ ret'[t].ok
                        /\ ret'[t].val.name = name
                        /\ ret'[t].val.value \notin RegisteredValues
                        /\ DOMAIN permissions' = DOMAIN permissions \cup {name}
                        /\ permissions'[name] = ret'[t].val
                        /\ \A m \in DOMAIN permissions : permissions'[m] = permissions[m]]_vars

\* "write" was added next to "WRITE" with a value of its own, and a second
\* add_permission("write") was refused
C14_Witness ==
    \E t, u \in Tasks :
        /\ pc[t] = "done" /\ call[t].op = "add_permission" /\ call[t].pname = "write"
        /\ ret[t].ok
        /\ pc[u] = "done" /\ call[u].op = "add_permission" /\ call[u].pname = "write"
        /\ ret[u] = ErrExists
        /\ {"WRITE", "write"} \subseteq DOMAIN permissions
        /\ permissions["write"] = ret[t].val
        /\ permissions["write"].value # permissions["WRITE"].value

\* C15: the value of a registered permission never changes between its
\* registration and its removal: every step leaves each name that stays
\* registered with the value it had; a step that changes the registry is
\* the write of one add_permission, which adds one name, or of one
\* remove_permission, which drops one name.
C15_StableValues ==
    [][/\ \A n \in DOMAIN permissions \cap DOMAIN permissions' :
             permissions'[n] = permissions[n]
       /\ permissions' # permissions =>
             \E t \in Tasks :
                 \/ /\ Returns(t, "ap_body")
                    /\ DOMAIN permissions' = DOMAIN permissions \cup {call[t].pname}
                    /\ call[t].pname \notin DOMAIN permissions
                 \/ /\ Returns(t, "rp_body")
                    /\ DOMAIN permissions' = DOMAIN permissions \ {call[t].pname}
                    /\ call[t].pname \in DOMAIN permissions]_vars

\* WRITE was removed and ADMIN registered in its place, and the permissions
\* registered at construction on either side still have their values
C15_Witness ==
    /\ DOMAIN permissions = {"READ", "EXECUTE", "DELETE", "ADMIN"}
    /\ permissions["ADMIN"].value = {1}
    /\ \A n \in {"READ", "EXECUTE", "DELETE"} : permissions[n] = DefaultPermissions[n]
    /\ \E t \in Tasks :
          pc[t] = "done" /\ call[t].op = "add_permission" /\ ret[t].ok

\* ------------------------------------------------------------- fairness
\* The runtime keeps running every task that can take a step (weak fairness
\* on the steps under a lock, which nothing can disable), and a task that can
\* take a lock again and again is granted it in the end (strong fairness on
\* the acquisitions).  A client need not send another request.
BodyStepOf(t) ==
    \/ NamesToBitsBody(t)
    \/ BitsToNamesBody(t)
    \/ CreateUserBody(t)
    \/ UpdateUserPermissionsBody(t)
    \/ GetUserBody(t)
    \/ GetUserWithPermissionNamesBody(t)
    \/ CheckPermissionsBody(t)
    \/ AddPermissionBody(t)
    \/ RemovePermissionBody(t)
    \/ ListPermissionsBody(t)

Fairness == \A t \in Tasks : WF_vars(BodyStepOf(t)) /\ SF_vars(LockStepOf(t))

\* the state in which task 1's create_user(["WRITE"]) has just returned
InitLive ==
    /\ permissions = DefaultPermissions
    /\ users = (1 :> {1})
    /\ permLock = Unlocked
    /\ userLock = Unlocked
    /\ pc = [t \in Tasks |-> IF t = 1 THEN "done" ELSE "idle"]
    /\ call = [t \in Tasks |->
                 IF t = 1 THEN [names |-> <<"WRITE">>, op |-> "create_user", uid |-> 0,
                                pname |-> "", pw_ok |-> TRUE]
                 ELSE NoCall]
    /\ local = [t \in Tasks |-> IF t = 1 THEN [NoLocal EXCEPT !.bits = {1}] ELSE NoLocal]
    /\ ret = [t \in Tasks |-> IF t = 1 THEN Ok(User(1, {1})) ELSE NoRet]
    /\ calls = 1
    /\ poisoned = [perm |-> FALSE, user |-> FALSE]

LiveSpec == InitLive /\ [][Next]_vars /\ Fairness

\* C16: under fair scheduling of tasks and lock grants, every operation a
\* task has invoked eventually returns.
C16_EventuallyReturns == \A t \in Tasks : MidOp(t) ~> (pc[t] = "done")

\* update_user_permissions waits for the user-directory write lock while a
\* check_permissions holds it as a reader
C16_Witness ==
    \E t, u \in Tasks :
        /\ pc[t] = "up_lock" /\ Waiting(t) /\ WaitsFor(t, u)
        /\ call[u].op = "check_permissions" /\ pc[u] \in {"ntb_lock", "ntb_body"}

\* task u has returned from a successful update_user_permissions on user id
UpdatedOk(u, id) ==
    /\ pc[u] = "done" /\ call[u].op = "update_user_permissions"
    /\ call[u].uid = id /\ ret[u].ok

\* C17: two tasks update the same user with lists A and B.  Each resolves
\* its list to the mask of that list when it reads the registry; each
\* returns the user record carrying the mask it wrote; and when the second
\* of the two writes, the stored mask is exactly the writer's mask, whatever
\* the other task wrote: mask(A) or mask(B), never a mixture or a union.
C17_ConcurrentUpdates ==
    [][\A t \in Tasks :
          /\ (/\ pc[t] = "ntb_body" /\ pc'[t] = "up_lock")
                => Ok(local'[t].bits)
                       = permission_names_to_bits(permissions, call[t].names)
          /\ \A u \in Tasks \ {t} :
                (/\ Returns(t, "up_body") /\ ret'[t].ok
                 /\ UpdatedOk(u, call[t].uid))
                => LET id == call[t].uid
                   IN  /\ users'[id] = local[t].bits
                       /\ ret'[t] = Ok(User(id, local[t].bits))
                       /\ ret'[u] = Ok(User(id, local[u].bits))
                       /\ users'[id] \in {ret'[t].val.permissions,
                                          ret'[u].val.permissions}]_vars

\* both updates of user 1 have returned, one with [WRITE] and one with the
\* empty list; the empty list was written last, and the stored mask is 0,
\* not the union
C17_Witness ==
    \E t, u \in Tasks :
        /\ t # u /\ UpdatedOk(t, 1) /\ UpdatedOk(u, 1)
        /\ call[t].names = <<"WRITE">> /\ ret[t].val.permissions = {1}
        /\ call[u].names = << >> /\ ret[u].val.permissions = Zero
        /\ users[1] = Zero

\* C18: list_permissions returns every currently registered permission
\* exactly once, in strictly ascending order of bit value, and no step of it
\* modifies the registry or any user.
C18_ListPermissions ==
    [][\A t \in Tasks :
          /\ Returns(t, "lp_body") =>
                /\ ret'[t].ok
                /\ LET l == ret'[t].val
                   IN  /\ Range(l) = {permissions[n] : n \in DOMAIN permissions}
                       /\ Len(l) = Cardinality(DOMAIN permissions)
                       /\ \A i, j \in 1..Len(l) :
                             i < j => U64Less(l[i].value, l[j].value)
          /\ (call[t].op = "list_permissions" /\ pc'[t] # pc[t] /\ pc[t] # "done")
                => permissions' = permissions /\ users' = users]_vars

\* list_permissions has returned the registry in which ADMIN took the value
\* that the removal of WRITE freed: READ, ADMIN, EXECUTE, DELETE
C18_Witness ==
    \E t \in Tasks :
        /\ pc[t] = "done" /\ call[t].op = "list_permissions" /\ ret[t].ok
        /\ Len(ret[t].val) = 4
        /\ [i \in 1..4 |-> ret[t].val[i].name] = <<"READ", "ADMIN", "EXECUTE", "DELETE">>
        /\ ret[t].val[2].value = {1}

\* ------------------------------------------------------------- poisoning
\* A task panics while it holds a write guard (std poisons a RwLock only
\* then): unwinding drops the guard, the lock is poisoned from then on, and
\* the task's request never returns.  The maps are as before the panic.
Panic(t) ==
    /\ pc[t] \in {"cu_body", "up_body", "ap_body", "rp_body"}
    /\ IF pc[t] \in {"ap_body", "rp_body"}
       THEN /\ permLock' = WriteUnlocked(permLock, t)
            /\ poisoned' = [poisoned EXCEPT !.perm = TRUE]
            /\ UNCHANGED userLock
       ELSE /\ userLock' = WriteUnlocked(userLock, t)
            /\ poisoned' = [poisoned EXCEPT !.user = TRUE]
            /\ UNCHANGED permLock
    /\ pc' = [pc EXCEPT ![t] = "panicked"]
    /\ UNCHANGED <<permissions, users, call, local, ret, calls>>

NextPoison == Next \/ \E t \in Tasks : Panic(t)

\* from the state in which task 1's create_user(["WRITE"]) has returned
SpecPoison == InitLive /\ [][NextPoison]_vars

\* the lock that the acquisition at pc[t] asks for is poisoned
AcquiresPoisoned(t) ==
    \/ pc[t] \in PermReadWait \cup PermWriteWait /\ poisoned.perm
    \/ pc[t] \in UserReadWait \cup UserWriteWait /\ poisoned.user

LockUnavailable == {ErrReadLock, ErrWriteLock}

\* C19: every operation surfaces a failure to acquire a (poisoned) lock as
\* a LockUnavailable error, and get_user reports absent only when the
\* identifier is not in the directory.
C19_LockFailureSurfaced ==
    [][\A t \in Tasks :
          /\ (AcquiresPoisoned(t) /\ pc'[t] # pc[t]) =>
                pc'[t] = "done" /\ ret'[t] \in LockUnavailable
          /\ (call[t].op = "get_user" /\ pc[t] # "done" /\ pc'[t] = "done"
                /\ ret'[t] = None)
                => call[t].uid \notin DOMAIN users]_vars

\* get_user of a stored user has returned absent because the user-directory
\* lock is poisoned
C19_Witness ==
    \E t \in Tasks :
        /\ pc[t] = "done" /\ call[t].op = "get_user"
        /\ call[t].uid \in DOMAIN users
        /\ ret[t] = None
        /\ poisoned.user

\* task t takes a step of its create_user or update_user_permissions
UserOpStep(t) ==
    /\ call[t].op \in {"create_user", "update_user_permissions"}
    /\ pc[t] \notin {"idle", "done"}
    /\ pc'[t] # pc[t]

\* C20: a failing user operation leaves the user directory unchanged, and
\* no user operation touches the registry.  A step of create_user or
\* update_user_permissions changes the directory only if it is the return
\* of a successful call; a list with an unregistered name fails the call
\* when the names are resolved, with PermissionNotFound for the first such
\* name, before the directory lock is taken; update_user_permissions of an
\* unknown id fails with UserNotFound at the write, which changes nothing.
C20_FailureLeavesDirectory ==
    [][\A t \in Tasks :
          UserOpStep(t) =>
              /\ permissions' = permissions
              /\ users' # users => pc'[t] = "done" /\ ret'[t].ok
              /\ (pc'[t] = "done" /\ ~ret'[t].ok) => users' = users
              /\ (/\ pc[t] = "ntb_body"
                  /\ \E i \in 1..Len(call[t].names) :
                        call[t].names[i] \notin DOMAIN permissions)
                 => /\ pc'[t] = "done"
                    /\ ret'[t] = ErrNotFound(FirstUnregistered(permissions, call[t].names))
                    /\ users' = users
              /\ (/\ pc[t] = "up_body"
                  /\ call[t].uid \notin DOMAIN users)
                 => ret'[t] = ErrNoUser /\ users' = users]_vars

\* create_user with the unregistered ADMIN has failed and so has
\* update_user_permissions of an unknown id; the directory is still empty
\* and the registry is as constructed
C20_Witness ==
    \E t, u \in Tasks :
        /\ pc[t] = "done" /\ call[t].op = "create_user"
        /\ "ADMIN" \in Range(call[t].names)
        /\ ret[t] = ErrNotFound("ADMIN")
        /\ pc[u] = "done" /\ call[u].op = "update_user_permissions"
        /\ ret[u] = ErrNoUser
        /\ users = << >>
        /\ permissions = DefaultPermissions

\* ------------------------------------------------------------- manager and utils
\* The manager's inline code and the functions of utils.rs on the same
\* registry.  The runs start from the constructed manager or, with one call
\* left, from a filled registry in which a user created with ["WRITE"] is
\* stored.
InitUtils ==
    \/ Init
    \/ /\ \E holes \in SUBSET HolePositions : permissions = FilledRegistry(holes)
       /\ users = (1 :> {1})
       /\ permLock = Unlocked
       /\ userLock = Unlocked
       /\ pc = [t \in Tasks |-> "idle"]
       /\ call = [t \in Tasks |-> NoCall]
       /\ local = [t \in Tasks |-> NoLocal]
       /\ ret = [t \in Tasks |-> NoRet]
       /\ calls = MaxCalls - 1
       /\ poisoned = [perm |-> FALSE, user |-> FALSE]

SpecUtils == InitUtils /\ [][Next]_vars

\* the mask bits_to_permission_names is called with by the caller of task t
NamedMask(t) ==
    IF call[t].op = "check_permissions" THEN local[t].missing_bits
    ELSE users[call[t].uid]

\* the names in the result of the caller of bits_to_permission_names
NamesIn(r, op) == IF op = "check_permissions" THEN r.val[2] ELSE r.val.val[2]

\* the inline allocation of add_permission on a registry gives what
\* find_next_available_bit gives on the registry's values
AllocatesSame(perms) == NextValue(perms) = find_next_available_bit(UsedValues(perms))

\* C21: the manager's inline code gives what the functions of utils.rs give
\* on the same registry.  For every reachable registry (the one at the start
\* and the one after every step that changes it) the inline allocation of
\* add_permission equals find_next_available_bit of the registry's values;
\* in every reachable state the private permission_names_to_bits and bits_to_permission_names
\* equal the public ones for every request list and every stored mask; and
\* every step of the manager uses that result: add_permission of a new name
\* inserts and returns the value find_next_available_bit gives or returns its
\* exhaustion error, a failed translation returns the error of the utils
\* function and a successful one carries its bits on, and the names returned
\* are those of the utils function for the mask translated.
C21_SameAsUtils ==
    /\ AllocatesSame(permissions)
    /\ [][permissions' # permissions => AllocatesSame(permissions')]_vars
    /\ [](\A names \in NameLists :
            permission_names_to_bits(permissions, names)
                = utils_permission_names_to_bits(permissions, names))
    /\ [](\A u \in DOMAIN users :
            Ok(bits_to_permission_names(permissions, users[u]))
                = utils_bits_to_permission_names(permissions, users[u]))
    /\ [][\A t \in Tasks :
            /\ Returns(t, "ap_body") /\ ~ContainsKey(permissions, call[t].pname) =>
                  LET found == find_next_available_bit(UsedValues(permissions))
                  IN  IF found.ok
                      THEN /\ ret'[t] = Ok([name |-> call[t].pname, value |-> found.val])
                           /\ permissions'[call[t].pname].value = found.val
                      ELSE /\ ret'[t] = found
                           /\ permissions' = permissions
            /\ pc[t] = "ntb_body" /\ pc'[t] # "ntb_body" =>
                  LET bits == utils_permission_names_to_bits(permissions, call[t].names)
                  IN  IF bits.ok
                      THEN pc'[t] # "done" => local'[t].bits = bits.val
                      ELSE ret'[t] = bits
            /\ Returns(t, "btn_body") =>
                  Ok(NamesIn(ret'[t], call[t].op))
                      = utils_bits_to_permission_names(permissions, NamedMask(t))]_vars

\* add_permission("ADMIN") has returned find_next_available_bit's exhaustion
\* error on a registry of 64 permissions in which the stored user's mask
\* still names WRITE
C21_Witness ==
    \E t \in Tasks :
        /\ pc[t] = "done" /\ call[t].op = "add_permission"
        /\ ~ContainsKey(permissions, call[t].pname)
        /\ ret[t] = ErrSlots
        /\ find_next_available_bit(UsedValues(permissions)) = ErrSlots
        /\ Cardinality(DOMAIN permissions) = BITS
        /\ \E u \in DOMAIN users :
              utils_bits_to_permission_names(permissions, users[u]) = Ok(<<"WRITE">>)

\* ------------------------------------------------------------- check against registry changes
\* check_permissions runs while other tasks add and remove permissions.  A
\* user created with no permissions is stored; the run has three calls.
InitRace ==
    /\ permissions = DefaultPermissions
    /\ users = (1 :> Zero)
    /\ permLock = Unlocked
    /\ userLock = Unlocked
    /\ pc = [t \in Tasks |-> "idle"]
    /\ call = [t \in Tasks |-> NoCall]
    /\ local = [t \in Tasks |-> NoLocal]
    /\ ret = [t \in Tasks |-> NoRet]
    /\ calls = MaxCalls - 3
    /\ poisoned = [perm |-> FALSE, user |-> FALSE]

NextRace ==
    \E t \in Tasks :
        \/ CallCheckPermissions(t)
        \/ CallAddPermission(t)
        \/ CallRemovePermission(t)
        \/ CheckPermissionsLock(t)
        \/ CheckPermissionsBody(t)
        \/ NamesToBitsLock(t)
        \/ NamesToBitsBody(t)
        \/ BitsToNamesLock(t)
        \/ BitsToNamesBody(t)
        \/ AddPermissionLock(t)
        \/ AddPermissionBody(t)
        \/ RemovePermissionLock(t)
        \/ RemovePermissionBody(t)

SpecRace == InitRace /\ [][NextRace]_vars

\* task t returns from check_permissions in this step
CheckReturns(t) ==
    /\ call[t].op = "check_permissions"
    /\ pc[t] \in {"ntb_body", "btn_body"}
    /\ pc'[t] = "done"

\* C22: under any interleaving with add_permission and remove_permission,
\* every successful check_permissions returns allSatisfied = false exactly
\* when its missing list is non-empty, and every name in the missing list is
\* one of the required names of the call.
C22_ResultConsistent ==
    [][\A t \in Tasks :
          CheckReturns(t) /\ ret'[t].ok =>
              /\ ~ret'[t].val[1] <=> ret'[t].val[2] # <<>>
              /\ Range(ret'[t].val[2]) \subseteq Range(call[t].names)]_vars

\* check_permissions(["WRITE"]) for the user without permissions has
\* returned (false, ["ADMIN"]): WRITE was removed and ADMIN added on its bit
\* between the call's two reads of the registry
C22_Witness ==
    \E t \in Tasks :
        /\ pc[t] = "done" /\ call[t].op = "check_permissions"
        /\ call[t].names = <<"WRITE">>
        /\ ret[t] = Ok(<<FALSE, <<"ADMIN">>>>)
        /\ "WRITE" \notin DOMAIN permissions
        /\ permissions["ADMIN"].value = local[t].missing_bits

\* ------------------------------------------------------------- a freed bit reused
\* The state in which task 1's create_user(["WRITE"]) and then task 2's
\* remove_permission("WRITE") have returned: the user's mask keeps WRITE's
\* bit.  Permissions are then added and removed and the user is checked and
\* read; no call changes the user's grant.
ReuseUser == 1
GrantedNames == <<"WRITE">>

InitReuse ==
    /\ permissions = RegistryWithout(DefaultPermissions, "WRITE")
    /\ users = UsersAfterRemove((ReuseUser :> DefaultPermissions["WRITE"].value),
                                DefaultPermissions["WRITE"].value)
    /\ permLock = Unlocked
    /\ userLock = Unlocked
    /\ pc = [t \in Tasks |-> IF t \in {1, 2} THEN "done" ELSE "idle"]
    /\ call = [t \in Tasks |->
                 CASE t = 1 -> [names |-> GrantedNames, op |-> "create_user", uid |-> 0,
                                pname |-> "", pw_ok |-> TRUE]
                   [] t = 2 -> [names |-> <<>>, op |-> "remove_permission", uid |-> 0,
                                pname |-> "WRITE", pw_ok |-> TRUE]
                   [] OTHER -> NoCall]
    /\ local = [t \in Tasks |->
                  IF t = 1 THEN [NoLocal EXCEPT !.bits = DefaultPermissions["WRITE"].value]
                  ELSE NoLocal]
    /\ ret = [t \in Tasks |->
                CASE t = 1 -> Ok(User(ReuseUser, DefaultPermissions["WRITE"].value))
                  [] t = 2 -> Ok(<<>>)
                  [] OTHER -> NoRet]
    /\ calls = MaxCalls - 3
    /\ poisoned = [perm |-> FALSE, user |-> FALSE]

NextReuse ==
    \E t \in Tasks :
        \/ CallAddPermission(t)
        \/ CallRemovePermission(t)
        \/ CallCheckPermissions(t)
        \/ CallGetUserWithPermissionNames(t)
        \/ AddPermissionLock(t)
        \/ AddPermissionBody(t)
        \/ RemovePermissionLock(t)
        \/ RemovePermissionBody(t)
        \/ CheckPermissionsLock(t)
        \/ CheckPermissionsBody(t)
        \/ NamesToBitsLock(t)
        \/ NamesToBitsBody(t)
        \/ GetUserWithPermissionNamesLock(t)
        \/ GetUserWithPermissionNamesBody(t)
        \/ BitsToNamesLock(t)
        \/ BitsToNamesBody(t)

SpecReuse == InitReuse /\ [][NextReuse]_vars

\* check_permissions(ReuseUser, [n]) has returned allSatisfied = true to t
CheckedTrue(t, n) ==
    /\ pc[t] = "done" /\ call[t].op = "check_permissions"
    /\ call[t].uid = ReuseUser /\ call[t].names = <<n>>
    /\ ret[t].ok /\ ret[t].val[1]

\* get_user_with_permission_names(ReuseUser) has returned n among the names
NamedHolding(t, n) ==
    /\ pc[t] = "done" /\ call[t].op = "get_user_with_permission_names"
    /\ call[t].uid = ReuseUser
    /\ ret[t].ok /\ ret[t].val.some /\ n \in Range(ret[t].val.val[2])

\* C23: a user is reported as holding a permission only if it was granted by
\* name: when check_permissions(u, [N]) has returned allSatisfied = true and
\* get_user_with_permission_names(u) has returned N among the names, N is in
\* the name list of u's most recent successful create_user or
\* update_user_permissions, also after remove_permission and add_permission
\* have reused a freed bit.
C23_OnlyGranted ==
    \A n \in Names :
        (\E t \in Tasks : CheckedTrue(t, n)) /\ (\E t \in Tasks : NamedHolding(t, n))
            => n \in Range(GrantedNames)

\* the user was created with ["WRITE"]; WRITE was removed and ADMIN added on
\* its bit; check_permissions(["ADMIN"]) has returned true and
\* get_user_with_permission_names has returned ["ADMIN"]
C23_Witness ==
    /\ "ADMIN" \notin Range(GrantedNames)
    /\ \E t \in Tasks : CheckedTrue(t, "ADMIN") /\ ret[t] = Ok(<<TRUE, <<>>>>)
    /\ \E t \in Tasks : NamedHolding(t, "ADMIN") /\ ret[t].val.val[2] = <<"ADMIN">>
    /\ users[ReuseUser] = permissions["ADMIN"].value

\* ------------------------------------------------------------- no removal
\* Runs in which remove_permission is never called: users are created and
\* updated while permissions are added.
NextGrow ==
    \E t \in Tasks :
        \/ CallCreateUser(t)
        \/ CallUpdateUserPermissions(t)
        \/ CallAddPermission(t)
        \/ NamesToBitsLock(t)
        \/ NamesToBitsBody(t)
        \/ CreateUserLock(t)
        \/ CreateUserBody(t)
        \/ UpdateUserPermissionsLock(t)
        \/ UpdateUserPermissionsBody(t)
        \/ AddPermissionLock(t)
        \/ AddPermissionBody(t)

SpecGrow == Init /\ [][NextGrow]_vars

\* the OR of all registry values
RegistryMask == UNION RegisteredValues

\* C24: when remove_permission is never called, under every interleaving of
\* create_user, update_user_permissions and add_permission every stored mask
\* has only bits that are values of currently registered permissions: the
\* mask AND NOT the OR of all registry values is 0.
C24_MasksRegistered ==
    \A u \in DOMAIN users : BitAnd(users[u], BitNot(RegistryMask)) = Zero

\* ADMIN was added in the run; a user created with ["WRITE"] was then updated
\* to ["ADMIN", "ADMIN"] and its stored mask is ADMIN's value
C24_Witness ==
    /\ "ADMIN" \in DOMAIN permissions
    /\ \E t \in Tasks :
          /\ pc[t] = "done" /\ call[t].op = "update_user_permissions"
          /\ call[t].names = <<"ADMIN", "ADMIN">>
          /\ ret[t].ok
          /\ users[call[t].uid] = permissions["ADMIN"].value
          /\ users[call[t].uid] # Zero

====
